---- MODULE Spec2Model ----
(***************************************************************************)
(* Model of src/regex.py: class DataExtractor.  A text is a sequence of    *)
(* one-character strings.  Each regular expression is modelled by the      *)
(* position at which the backtracking matcher of re ends its first         *)
(* successful path from a given start position; re.findall is the          *)
(* leftmost-first, non-overlapping scan built on it.  A raised exception   *)
(* is modelled as a value: every call returns [exc, val].                  *)
(***************************************************************************)
EXTENDS Integers, Sequences, FiniteSets, TLC

VARIABLES text, pc, op, ret

vars == <<text, pc, op, ret>>

----------------------------------------------------------------------------
(* Character classes of the re module (ASCII part).                        *)

LowerSeq == <<"a","b","c","d","e","f","g","h","i","j","k","l","m",
              "n","o","p","q","r","s","t","u","v","w","x","y","z">>

UpperSeq == <<"A","B","C","D","E","F","G","H","I","J","K","L","M",
              "N","O","P","Q","R","S","T","U","V","W","X","Y","Z">>

Range(s) == {s[i] : i \in DOMAIN s}

\* \d
Digit == {"0","1","2","3","4","5","6","7","8","9"}

\* \w
Word == Range(LowerSeq) \cup Range(UpperSeq) \cup Digit \cup {"_"}

\* \s
Space == {" ", "\t", "\n", "\r", "\f"}

\* [-.\s] of phone_pattern
PhoneSep == {"-", "."} \cup Space

\* [ -] of credit_card_pattern
CardSep == {" ", "-"}

\* [\w.+-] of email_pattern
EmailLocal == Word \cup {".", "+", "-"}

\* [\w-] of email_pattern
EmailLabel == Word \cup {"-"}

\* [\w.-] of url_pattern
UrlHost == Word \cup {".", "-"}

\* [\w./?%&=+-] of url_pattern
UrlPath == Word \cup {".", "/", "?", "%", "&", "=", "+", "-"}

----------------------------------------------------------------------------
(* String helpers: the str methods the code calls.                         *)

\* s[a:b] with 1-based inclusive start a and exclusive end b
Slice(s, a, b) == [k \in 1..(b - a) |-> s[a + k - 1]]

\* character at position i, or "" past either end of the text
At(s, i) == IF i >= 1 /\ i <= Len(s) THEN s[i] ELSE ""

\* s.startswith(p)
StartsWith(s, p) ==
    /\ Len(p) <= Len(s)
    /\ \A k \in 1..Len(p) : s[k] = p[k]

\* s.endswith(p)
EndsWith(s, p) ==
    /\ Len(p) <= Len(s)
    /\ \A k \in 1..Len(p) : s[Len(s) - Len(p) + k] = p[k]

\* p in s
Contains(s, p) ==
    \E i \in 1..(Len(s) - Len(p) + 1) : \A k \in 1..Len(p) : s[i + k - 1] = p[k]

LowerChar(c) ==
    IF \E k \in 1..26 : UpperSeq[k] = c
    THEN LowerSeq[CHOOSE k \in 1..26 : UpperSeq[k] = c]
    ELSE c

\* s.lower()
Lower(s) == [k \in 1..Len(s) |-> LowerChar(s[k])]

\* the characters of s that are in (keep = TRUE) or not in (keep = FALSE) cls
Filter(s, cls, keep) == SelectSeq(s, LAMBDA c : (c \in cls) = keep)

\* the least element of a non-empty set of integers
Min(S) == CHOOSE x \in S : \A y \in S : x <= y

\* s.split(sep) for a one-character sep: the list of parts
RECURSIVE SplitFrom(_, _, _)
SplitFrom(s, sep, start) ==
    LET at == {i \in start..Len(s) : s[i] = sep}
    IN  IF at = {} THEN <<Slice(s, start, Len(s) + 1)>>
        ELSE <<Slice(s, start, Min(at))>> \o SplitFrom(s, sep, Min(at) + 1)

Split(s, sep) == SplitFrom(s, sep, 1)

\* s.isdigit()
IsDigitStr(s) == Len(s) > 0 /\ \A k \in 1..Len(s) : s[k] \in Digit

\* len(set(s))
DistinctChars(s) == Cardinality(Range(s))

\* c * n
Rep(c, n) == [k \in 1..n |-> c]

----------------------------------------------------------------------------
(* Program constants.                                                      *)

\* {13,19} of credit_card_pattern, and the length gate of validate_credit_card
CardMinDigits == 13

CardMaxDigits == 19

\* len(local) > 64, len(domain) > 255
MaxLocalLen == 64

MaxDomainLen == 255

\* 10 <= len(digits) <= 15
PhoneMinDigits == 10

PhoneMaxDigits == 15

\* clean[-4:]
MaskKeep == 4

NoMatch == 0

----------------------------------------------------------------------------
(* The four patterns.  Each pattern operator, applied to (t, i), is the     *)
(* position just after the match that re finds starting at position i of   *)
(* t, NoMatch when the pattern does not match there.                       *)

\* the first position >= i whose character is not in cls (greedy cls*)
RunEnd(t, i, cls) ==
    LET stops == {k \in i..Len(t) : t[k] \notin cls}
    IN  IF stops = {} THEN Len(t) + 1 ELSE Min(stops)

\* (?:\.[\w-]+)* continued greedily from position k
RECURSIVE EmailGroups(_, _)
EmailGroups(t, k) ==
    IF At(t, k) = "." /\ At(t, k + 1) \in EmailLabel
    THEN EmailGroups(t, RunEnd(t, k + 1, EmailLabel))
    ELSE k

\* r"[\w.+-]+@[\w-]+(?:\.[\w-]+)+"
email_pattern(t, i) ==
    LET j == RunEnd(t, i, EmailLocal)
        k == RunEnd(t, j + 1, EmailLabel)
        e == EmailGroups(t, k)
    IN  IF j > i /\ At(t, j) = "@" /\ k > j + 1 /\ e > k THEN e ELSE NoMatch

\* variant: the pattern anchored at a word boundary, r"\bhttps?://..."
url_pattern_word_bounded(t, i) ==
    LET p == IF At(t, i + 4) = "s" THEN i + 5 ELSE i + 4
        h == RunEnd(t, p + 3, UrlHost)
    IN  IF /\ (At(t, i - 1) \in Word) # (At(t, i) \in Word)
           /\ i + 3 <= Len(t)
           /\ Slice(t, i, i + 4) = <<"h", "t", "t", "p">>
           /\ p + 2 <= Len(t)
           /\ Slice(t, p, p + 3) = <<":", "/", "/">>
           /\ h > p + 3
        THEN IF At(t, h) = "/" THEN RunEnd(t, h + 1, UrlPath) ELSE h
        ELSE NoMatch

\* r"https?://[\w.-]+(?:/[\w./?%&=+-]*)?"
url_pattern(t, i) ==
    LET p == IF At(t, i + 4) = "s" THEN i + 5 ELSE i + 4
        h == RunEnd(t, p + 3, UrlHost)
    IN  IF /\ i + 3 <= Len(t)
           /\ Slice(t, i, i + 4) = <<"h", "t", "t", "p">>
           /\ p + 2 <= Len(t)
           /\ Slice(t, p, p + 3) = <<":", "/", "/">>
           /\ h > p + 3
        THEN IF At(t, h) = "/" THEN RunEnd(t, h + 1, UrlPath) ELSE h
        ELSE NoMatch

\* exactly n digits from position i
DigitsAt(t, i, n) == \A k \in 0..(n - 1) : At(t, i + k) \in Digit

\* [-.\s]? : taken whenever present (what follows is never a separator)
SkipSep(t, i) == IF At(t, i) \in PhoneSep THEN i + 1 ELSE i

SkipSpace(t, i) == IF At(t, i) \in Space THEN i + 1 ELSE i

\* (?:\s?(?:ext|x)\s?\d{2,5})? from position i: the end, or i when absent
PhoneExt(t, i) ==
    LET a == SkipSpace(t, i)
        b == IF Len(t) >= a + 2 /\ Slice(t, a, a + 3) = <<"e", "x", "t">> THEN a + 3
             ELSE IF At(t, a) = "x" THEN a + 1
             ELSE NoMatch
        c == SkipSpace(t, b)
        n == RunEnd(t, c, Digit) - c
    IN  IF b # NoMatch /\ n >= 2 THEN c + (IF n > 5 THEN 5 ELSE n) ELSE i

\* (?:\(\d{3}\)|\d{3})[-.\s]?\d{3}[-.\s]?\d{4}(?:...)? from position i
PhoneCore(t, i) ==
    LET a == IF At(t, i) = "(" /\ DigitsAt(t, i + 1, 3) /\ At(t, i + 4) = ")" THEN i + 5
             ELSE IF DigitsAt(t, i, 3) THEN i + 3
             ELSE NoMatch
        b == SkipSep(t, a)
        c == SkipSep(t, b + 3)
    IN  IF a # NoMatch /\ DigitsAt(t, b, 3) /\ DigitsAt(t, c, 4)
        THEN PhoneExt(t, c + 4)
        ELSE NoMatch

\* (?:\+\d{1,3}[-.\s]?)? with k prefix digits, then the rest
PhonePrefixed(t, i, k) ==
    IF DigitsAt(t, i + 1, k) THEN PhoneCore(t, SkipSep(t, i + 1 + k)) ELSE NoMatch

\* the first of three alternatives that matches
FirstMatch(a, b, c) == IF a # NoMatch THEN a ELSE IF b # NoMatch THEN b ELSE c

\* phone_pattern: \d{1,3} is greedy and backtracks 3, 2, 1
phone_pattern(t, i) ==
    IF At(t, i) = "+"
    THEN FirstMatch(PhonePrefixed(t, i, 3), PhonePrefixed(t, i, 2), PhonePrefixed(t, i, 1))
    ELSE PhoneCore(t, i)

\* \b at position i (between t[i-1] and t[i])
WordBoundary(t, i) == (At(t, i - 1) \in Word) # (At(t, i) \in Word)

\* the position after n greedy iterations of \d[ -]? from i (separator taken),
\* NoMatch when fewer than n iterations are possible
RECURSIVE CardUnits(_, _, _)
CardUnits(t, i, n) ==
    IF n = 0 THEN i
    ELSE IF At(t, i) \in Digit
         THEN CardUnits(t, IF At(t, i + 1) \in CardSep THEN i + 2 ELSE i + 1, n - 1)
         ELSE NoMatch

\* the exits the matcher tries, from n iterations down to the minimum: after
\* the last iteration with its separator taken, then with it given back
RECURSIVE CardExit(_, _, _)
CardExit(t, i, n) ==
    IF n < CardMinDigits THEN NoMatch
    ELSE LET e == CardUnits(t, i, n)
         IN  IF e = NoMatch THEN CardExit(t, i, n - 1)
             ELSE IF WordBoundary(t, e) THEN e
             ELSE IF At(t, e - 1) \in CardSep /\ WordBoundary(t, e - 1) THEN e - 1
             ELSE CardExit(t, i, n - 1)

\* r"\b(?:\d[ -]?){13,19}\b"
credit_card_pattern(t, i) ==
    IF WordBoundary(t, i) THEN CardExit(t, i, CardMaxDigits) ELSE NoMatch

PatternEnd(cat, t, i) ==
    CASE cat = "email" -> email_pattern(t, i)
      [] cat = "url" -> url_pattern(t, i)
      [] cat = "phone" -> phone_pattern(t, i)
      [] cat = "credit_card" -> credit_card_pattern(t, i)

\* the (start, end) spans of re.finditer: leftmost first, non-overlapping,
\* the scan resuming where the last match ended
RECURSIVE Spans(_, _, _)

\* the match that starts at a and ends at b, then the scan from b
SpanThenScan(cat, t, a, b) == <<(<<a, b>>)>> \o Spans(cat, t, b)

\* the scan goes to the first of the positions where the pattern matches
ScanTo(cat, t, starts) ==
    IF starts = {} THEN <<>>
    ELSE SpanThenScan(cat, t, Min(starts), PatternEnd(cat, t, Min(starts)))

Spans(cat, t, i) == ScanTo(cat, t, {k \in i..Len(t) : PatternEnd(cat, t, k) # NoMatch})

\* the substrings of t at the given spans
Substrings(t, sp) == [k \in 1..Len(sp) |-> Slice(t, sp[k][1], sp[k][2])]

\* re.findall(pattern, text): the matched substrings (no pattern has a
\* capturing group)
FindAll(cat, t) == Substrings(t, Spans(cat, t, 1))

----------------------------------------------------------------------------
(* Calls.  A call returns [exc, val]: exc is "none" and val the returned   *)
(* value, or exc names the exception that left the call.                   *)

Ok(v) == [exc |-> "none", val |-> v]

Raise(e) == [exc |-> e, val |-> <<>>]

\* local, domain = parts
UnpackPair(parts) == IF Len(parts) = 2 THEN Ok(parts) ELSE Raise("ValueError")

bad_stuff == << <<"u","n","i","o","n">>, <<"s","e","l","e","c","t">>,
                <<"d","r","o","p">>, <<"-","-">>, <<"/","*">>, <<"*","/">> >>

\* variant: the ValueError of the unpacking is not caught
validate_email_uncaught(email) ==
    IF \/ Contains(email, <<".", ".">>)
       \/ StartsWith(email, <<".">>)
       \/ EndsWith(email, <<".">>)
    THEN Ok(FALSE)
    ELSE LET u == UnpackPair(Split(email, "@"))
         IN  IF u.exc # "none" THEN u
             ELSE IF Len(u.val[1]) > MaxLocalLen \/ Len(u.val[2]) > MaxDomainLen
                  THEN Ok(FALSE)
             ELSE IF \E k \in DOMAIN bad_stuff : Contains(Lower(email), bad_stuff[k])
                  THEN Ok(FALSE)
             ELSE Ok(TRUE)

\* variant: the denylist is searched in email, not in email.lower()
validate_email_case_sensitive(email) ==
    IF \/ Contains(email, <<".", ".">>)
       \/ StartsWith(email, <<".">>)
       \/ EndsWith(email, <<".">>)
    THEN Ok(FALSE)
    ELSE LET u == UnpackPair(Split(email, "@"))
         IN  IF u.exc = "ValueError" THEN Ok(FALSE)
             ELSE IF Len(u.val[1]) > MaxLocalLen \/ Len(u.val[2]) > MaxDomainLen
                  THEN Ok(FALSE)
             ELSE IF \E k \in DOMAIN bad_stuff : Contains(email, bad_stuff[k])
                  THEN Ok(FALSE)
             ELSE Ok(TRUE)

validate_email(email) ==
    IF \/ Contains(email, <<".", ".">>)
       \/ StartsWith(email, <<".">>)
       \/ EndsWith(email, <<".">>)
    THEN Ok(FALSE)
    ELSE LET u == UnpackPair(Split(email, "@"))
         IN  IF u.exc = "ValueError" THEN Ok(FALSE)
             ELSE IF Len(u.val[1]) > MaxLocalLen \/ Len(u.val[2]) > MaxDomainLen
                  THEN Ok(FALSE)
             ELSE IF \E k \in DOMAIN bad_stuff : Contains(Lower(email), bad_stuff[k])
                  THEN Ok(FALSE)
             ELSE Ok(TRUE)

blocked_schemes == { <<"j","a","v","a","s","c","r","i","p","t",":">>,
                     <<"d","a","t","a",":">>,
                     <<"f","i","l","e",":">>,
                     <<"a","b","o","u","t",":">> }

xss_stuff == { <<"<","s","c","r","i","p","t">>,
               <<"o","n","e","r","r","o","r">>,
               <<"o","n","l","o","a","d">> }

NUL == "\\x00"

validate_url(url) ==
    IF \E p \in blocked_schemes : StartsWith(Lower(url), p) THEN Ok(FALSE)
    ELSE IF \E bad \in xss_stuff : Contains(Lower(url), bad) THEN Ok(FALSE)
    ELSE IF Contains(url, <<NUL>>) THEN Ok(FALSE)
    ELSE Ok(TRUE)

\* variant: the repeated-digit check is missing
validate_phone_no_repeat_check(phone) ==
    LET digits == Filter(phone, Digit, TRUE)
    IN  IF ~(PhoneMinDigits <= Len(digits) /\ Len(digits) <= PhoneMaxDigits)
        THEN Ok(FALSE)
        ELSE Ok(TRUE)

validate_phone(phone) ==
    LET digits == Filter(phone, Digit, TRUE)
    IN  IF ~(PhoneMinDigits <= Len(digits) /\ Len(digits) <= PhoneMaxDigits)
        THEN Ok(FALSE)
        ELSE IF DistinctChars(digits) = 1 THEN Ok(FALSE)
        ELSE Ok(TRUE)

\* card.replace(' ', '').replace('-', '')
CleanCard(card) == Filter(Filter(card, {" "}, FALSE), {"-"}, FALSE)

\* variant: the repeated-digit check is missing
validate_credit_card_no_repeat_check(card) ==
    LET clean == CleanCard(card)
    IN  IF ~IsDigitStr(clean) THEN Ok(FALSE)
        ELSE IF ~(CardMinDigits <= Len(clean) /\ Len(clean) <= CardMaxDigits)
             THEN Ok(FALSE)
        ELSE Ok(TRUE)

validate_credit_card(card) ==
    LET clean == CleanCard(card)
    IN  IF ~IsDigitStr(clean) THEN Ok(FALSE)
        ELSE IF ~(CardMinDigits <= Len(clean) /\ Len(clean) <= CardMaxDigits)
             THEN Ok(FALSE)
        ELSE IF DistinctChars(clean) = 1 THEN Ok(FALSE)
        ELSE Ok(TRUE)

\* a validator call of the loop raised
Raised(v) == \E k \in 1..Len(v) : v[k].exc # "none"

\* the first exception of the loop's validator calls, which leaves the call
FirstRaised(v) ==
    v[CHOOSE k \in 1..Len(v) : v[k].exc # "none" /\ \A m \in 1..(k - 1) : v[m].exc = "none"]

Status(r) == IF r.val THEN "valid" ELSE "invalid"

\* the outcome of an extract loop: the findings, unless a validator raised
LoopOutcome(v, findings) == IF Raised(v) THEN FirstRaised(v) ELSE Ok(findings)

EmailFindings(found, v) ==
    [k \in 1..Len(found) |->
        [type |-> "email", value |-> found[k], status |-> Status(v[k])]]

EmailLoop(found, v) == LoopOutcome(v, EmailFindings(found, v))

EmailsOf(found) == EmailLoop(found, [k \in 1..Len(found) |-> validate_email(found[k])])

extract_emails(t) == EmailsOf(FindAll("email", t))

UrlFindings(found, v) ==
    [k \in 1..Len(found) |->
        [type |-> "url", value |-> found[k], status |-> Status(v[k])]]

UrlLoop(found, v) == LoopOutcome(v, UrlFindings(found, v))

UrlsOf(found) == UrlLoop(found, [k \in 1..Len(found) |-> validate_url(found[k])])

extract_urls(t) == UrlsOf(FindAll("url", t))

\* s.strip()
RECURSIVE LStrip(_)
LStrip(s) == IF Len(s) > 0 /\ Head(s) \in Space THEN LStrip(Tail(s)) ELSE s

RECURSIVE RStrip(_)
RStrip(s) ==
    IF Len(s) > 0 /\ s[Len(s)] \in Space THEN RStrip(SubSeq(s, 1, Len(s) - 1)) ELSE s

Strip(s) == RStrip(LStrip(s))

PhoneFindings(found, v) ==
    [k \in 1..Len(found) |->
        [type |-> "phone", value |-> Strip(found[k]), status |-> Status(v[k])]]

PhoneLoop(found, v) == LoopOutcome(v, PhoneFindings(found, v))

PhonesOf(found) == PhoneLoop(found, [k \in 1..Len(found) |-> validate_phone(found[k])])

\* variant: the else branch is missing, rejected candidates are dropped
extract_phone_numbers_valid_only(t) ==
    PhonesOf(SelectSeq(FindAll("phone", t), LAMBDA ph : validate_phone(ph).val))

extract_phone_numbers(t) == PhonesOf(FindAll("phone", t))

\* variant: one more digit is left readable, clean[-5:]
Mask_keep_five(clean) ==
    LET n == Len(clean)
    IN  Rep("*", n - 5) \o Slice(clean, IF n > 5 THEN n - 4 ELSE 1, n + 1)

\* '*' * (len(clean) - 4) + clean[-4:]
Mask(clean) ==
    LET n == Len(clean)
    IN  Rep("*", n - MaskKeep)
            \o Slice(clean, IF n > MaskKeep THEN n - MaskKeep + 1 ELSE 1, n + 1)

CardFinding(card, valid) ==
    IF valid
    THEN [type |-> "credit_card", value |-> Mask(CleanCard(card)),
          status |-> "valid", raw_format |-> card]
    ELSE [type |-> "credit_card", value |-> card, status |-> "invalid"]

CardFindings(found, v) == [k \in 1..Len(found) |-> CardFinding(found[k], v[k].val)]

CardLoop(found, v) == LoopOutcome(v, CardFindings(found, v))

CardsOf(found) ==
    CardLoop(found, [k \in 1..Len(found) |-> validate_credit_card(found[k])])

extract_credit_cards(t) == CardsOf(FindAll("credit_card", t))

\* the dict of the four lists, unless one of the four calls raised
AllOutcome(e, u, p, c) ==
    IF e.exc # "none" THEN e
    ELSE IF u.exc # "none" THEN u
    ELSE IF p.exc # "none" THEN p
    ELSE IF c.exc # "none" THEN c
    ELSE Ok([emails |-> e.val, urls |-> u.val, phones |-> p.val,
             credit_cards |-> c.val])

extract_all(t) ==
    AllOutcome(extract_emails(t), extract_urls(t), extract_phone_numbers(t),
               extract_credit_cards(t))

----------------------------------------------------------------------------
(* Input texts.                                                            *)

\* n repetitions of the digit d, each followed by the separator string s
RECURSIVE Units(_, _, _)
Units(d, n, s) == IF n = 0 THEN <<>> ELSE <<d>> \o s \o Units(d, n - 1, s)

\* longest first digit run of a card text
MaxRun == 20

\* longest second digit run of a card text
MaxTail == 2

\* digit runs with and without separators, between word and non-word
\* characters
CardTexts ==
    { pre \o Units("4", n1, s1) \o Units(d2, n2, s2) \o post :
        pre \in {<<>>, <<"a">>, <<"9", " ">>},
        n1 \in 0..MaxRun, s1 \in {<<>>, <<" ">>, <<"-">>},
        d2 \in {"4", "9"}, n2 \in 0..MaxTail, s2 \in {<<>>, <<" ">>},
        post \in {<<>>, <<"a">>, <<"_">>, <<" ">>} }

\* how far the part lengths of an email text go around the two length limits
Slack == 1

LocalRuns == {0, 1} \cup ((MaxLocalLen - Slack)..(MaxLocalLen + Slack))

DomainRuns == {1} \cup ((MaxDomainLen - 4 - Slack)..(MaxDomainLen - 4 + Slack))

\* short strings around every rejection rule of validate_email
ShortEmailTexts ==
    { lead \o Rep("a", n) \o mid \o at \o <<"b">> \o tail :
        lead \in {<<>>, <<".">>, <<"D", "r">>},
        n \in {0, 1},
        mid \in {<<>>, <<".", ".">>, <<"+", "t", "a", "g">>, <<"o", "p">>, <<"-", "-">>, <<"U", "n", "i", "o", "n">>},
        at \in {<<>>, <<"@">>, <<"@", "@">>},
        tail \in {<<>>, <<".", "c", "o", "m">>, <<".">>, <<".", "c", "*", "/">>} }

\* strings whose parts are as long as the two length limits, or nearly
LongEmailTexts ==
    { Rep("a", n) \o mid \o at \o Rep("b", m) \o tail :
        n \in LocalRuns,
        mid \in {<<>>, <<"-", "-">>},
        at \in {<<"@">>, <<"@", "@">>},
        m \in DomainRuns,
        tail \in {<<".", "c", "o", "m">>, <<".">>} }

EmailTexts ==
    ShortEmailTexts \cup LongEmailTexts \cup {<<"a", ".", ".", "b", "@", "e", "x", "a", "m", "p", "l", "e", ".", "c", "o", "m">>,
        <<"u", "s", "e", "r", "+", "t", "a", "g", "@", "e", "x", "a", "m", "p", "l", "e", ".", "c", "o", "m">>}

\* most digits after the extension marker of a phone text
MaxExt == 6

\* phone numbers in every layout of phone_pattern, with too few, enough and
\* too many digits
PhoneTexts ==
    { prefix \o area \o sep1 \o mid \o sep2 \o last \o ext \o Rep("1", k) :
        prefix \in {<<>>, <<"+", "1">>, <<"+", "1", "2", "3", " ">>},
        area \in {<<"(", "5", "5", "5", ")">>, <<"5", "5", "5">>, <<"1", "1", "1">>},
        sep1 \in {<<>>, <<"-">>, <<" ">>, <<"-", "-">>},
        mid \in {<<"1", "2", "3">>, <<"1", "1", "1">>},
        sep2 \in {<<>>, <<".">>},
        last \in {<<"4", "5", "6", "7">>, <<"1", "1", "1", "1">>},
        ext \in {<<" ", "e", "x", "t", " ">>, <<"x">>},
        k \in 0..MaxExt }

Urls ==
    {<<"j", "a", "v", "a", "s", "c", "r", "i", "p", "t", ":", "a", "l", "e", "r", "t", "(", "'", "x", "s", "s", "'", ")">>,
     <<"J", "a", "v", "a", "S", "c", "r", "i", "p", "t", ":", "a", "l", "e", "r", "t", "(", "1", ")">>,
     <<"d", "a", "t", "a", ":", "a">>,
     <<"f", "i", "l", "e", ":", "/", "a">>,
     <<"a", "b", "o", "u", "t", ":", "a">>,
     <<"h", "t", "t", "p", "s", ":", "/", "/", "e", "x", "a", "m", "p", "l", "e", ".", "c", "o", "m", "/", "p", "a", "t", "h", "?", "x", "=", "1">>,
     <<"h", "t", "t", "p", ":", "/", "/", "a", ".", "b">>,
     <<"h", "t", "t", "p", "s", ":", "/", "/", "a", ".", "b", "/", "o", "n", "l", "o", "a", "d">>,
     <<"h", "t", "t", "p", "s", ":", "/", "/", "a", ".", "b", "/", "x", "=", "<", "s", "c", "r", "i", "p", "t">>,
     <<"h", "t", "t", "p", ":", "/", "/", "a", ".", "b", "/", "O", "n", "E", "r", "r", "o", "r", "=", "1">>,
     <<"h", "t", "p", "s", ":", "/", "/", "t", "y", "p", "o", ".", "c", "o", "m">>,
     <<"h", "t", "t", "p", "s", ":", "/", "a", ".", "b">>,
     <<"H", "T", "T", "P", ":", "/", "/", "a", ".", "b">>}

\* URLs and URL look-alikes standing alone and inside a line
UrlTexts ==
    { pre \o u \o post :
        pre \in {<<>>, <<"x", " ">>, <<"(">>},
        u \in Urls,
        post \in {<<>>, <<" ", "y">>, <<"/", "z">>, <<"<", "s", "c", "r", "i", "p", "t", ">">>} }

\* lines of SAMPLE_INPUT
SampleTexts ==
    {<<"3", "7", "8", "2", " ", "8", "2", "2", "4", "6", "3", " ", "1", "0", "0", "0", "5">>,
     <<"4", "5", "3", "2", " ", "1", "2", "3", "4", " ", "5", "6", "7", "8", " ", "9", "0", "1", "0">>,
     <<"9", "9", "9", "9", "-", "9", "9", "9", "9", "-", "9", "9", "9", "9", "-", "9", "9", "9", "9">>,
     <<"5", "4", "1", "2", "-", "1", "2", "3", "4", "-", "5", "6", "7", "8", "-", "9", "0", "1", "2">>,
     <<"(", "5", "5", "5", ")", " ", "1", "2", "3", "-", "4", "5", "6", "7">>,
     <<"1", "1", "1", "-", "1", "1", "1", "-", "1", "1", "1", "1">>,
     <<"5", "5", "5", "-", "1", "2", "3", "-", "4", "5", "6", "7", " ", "e", "x", "t", " ", "2", "0", "1">>,
     <<"+", "1", "-", "5", "5", "5", "-", "1", "2", "3", "-", "4", "5", "6", "7">>,
     <<"2", "0", "2", "4", "-", "0", "1", "-", "1", "5">>,
     <<"u", "s", "e", "r", "+", "t", "a", "g", "@", "e", "x", "a", "m", "p", "l", "e", ".", "c", "o", "m">>,
     <<"t", "e", "s", "t", ".", ".", "e", "m", "a", "i", "l", "@", "e", "x", "a", "m", "p", "l", "e", ".", "c", "o", "m">>,
     <<"u", "s", "e", "r", "@", ".", "c", "o", "m">>,
     <<"5", "4", "1", "2", "@", "1", "2", "3", "4", "-", "5", "6", "7", "8", "_", "9", "0", "1", "2">>,
     <<"h", "t", "p", "s", ":", "/", "/", "t", "y", "p", "o", ".", "c", "o", "m", ",", " ", "j", "a", "v", "a", "s", "c", "r", "i", "p", "t", ":", "a", "l", "e", "r", "t", "(", "'", "x", "s", "s", "'", ")">>,
     <<"t", "e", "s", "t", "@", "e", "x", "a", "m", "p", "l", "e", ".", "c", "o", "m", ";", " ", "D", "R", "O", "P", " ", "T", "A", "B", "L", "E", " ", "u", "s", "e", "r", "s", ";", "-", "-">>}

Pieces ==
    {<<>>,
     <<"a">>,
     <<" ">>,
     <<"_">>,
     <<"/", "p">>,
     <<"4", "4", "4", "4", "4", "4", "4">>,
     <<"4", "4", "4", "4", "4", "4", "4", "4", "4", "4", "4", "4", "4">>,
     <<"7", "3", "4", "4", "4", "4", "4", "4", "4", "4", "4", "4", "4", "4", "4">>,
     <<"4", "4", "4", "4", "4", "4", "4", "4", "4", "4", "4", "4", "4", " ">>,
     <<"9">>,
     <<"-", "9">>,
     <<"5", "5", "5", "-", "1", "2", "3", "-", "4", "5", "6", "7">>,
     <<"(", "5", "5", "5", ")", " ", "1", "2", "3">>,
     <<"-", "4", "5", "6", "7">>,
     <<"+", "1", "-">>,
     <<" ", "e", "x", "t", " ", "2", "0", "1">>,
     <<"x", "1", "2">>,
     <<"u", "s", "e", "r", "@", "e", "x", "a", "m", "p", "l", "e">>,
     <<".", "c", "o", "m">>,
     <<"a", "@", "b", ".", "c">>,
     <<" ", "7", "3", "4", "4", "4", "4", "4", "4", "4", "4", "4", "4", "4", "4", "4">>,
     <<"@">>,
     <<"h", "t", "t", "p", "s", ":", "/", "/", "a", ".", "b">>,
     <<"/", "p", "a", "t", "h">>,
     <<"h", "t", "t", "p">>,
     <<"s", ":", "/", "/", "a", ".", "b">>,
     <<"?", "x", "=", "1">>}

\* every concatenation of two pieces: the texts cut at a boundary
ConcatTexts == { a \o b : a \in Pieces, b \in Pieces }

----------------------------------------------------------------------------
(* The state machine: a caller holds a text, calls one operation of the    *)
(* extractor on it, reads the outcome and is ready to call again.  The     *)
(* extractor keeps no state between calls.                                 *)

Call(name, outcome) ==
    /\ pc = "idle"
    /\ pc' = "done"
    /\ op' = name
    /\ ret' = outcome
    /\ UNCHANGED text

CallValidateEmail == Call("validate_email", validate_email(text))

CallValidateUrl == Call("validate_url", validate_url(text))

CallValidatePhone == Call("validate_phone", validate_phone(text))

CallValidateCreditCard == Call("validate_credit_card", validate_credit_card(text))

CallExtractEmails == Call("extract_emails", extract_emails(text))

CallExtractUrls == Call("extract_urls", extract_urls(text))

CallExtractPhoneNumbers == Call("extract_phone_numbers", extract_phone_numbers(text))

CallExtractCreditCards == Call("extract_credit_cards", extract_credit_cards(text))

CallExtractAll == Call("extract_all", extract_all(text))

Return ==
    /\ pc = "done"
    /\ pc' = "idle"
    /\ op' = "none"
    /\ ret' = Ok(<<>>)
    /\ UNCHANGED text

Next ==
    \/ CallValidateEmail
    \/ CallValidateUrl
    \/ CallValidatePhone
    \/ CallValidateCreditCard
    \/ CallExtractEmails
    \/ CallExtractUrls
    \/ CallExtractPhoneNumbers
    \/ CallExtractCreditCards
    \/ CallExtractAll
    \/ Return

InitWith(texts) ==
    /\ text \in texts
    /\ pc = "idle"
    /\ op = "none"
    /\ ret = Ok(<<>>)

Texts ==
    SampleTexts \cup CardTexts \cup EmailTexts \cup PhoneTexts \cup UrlTexts
        \cup ConcatTexts

Init == InitWith(Texts)

\* a call on a text of any kind
Spec == Init /\ [][Next]_vars

InitConcat == InitWith(ConcatTexts)

\* a call on the concatenation of two pieces
SpecConcat == InitConcat /\ [][Next]_vars

----------------------------------------------------------------------------
(* Properties.                                                             *)

\* the call `name` has returned normally
Returned(name) == pc = "done" /\ op = name /\ ret.exc = "none"

\* s with all spaces and hyphens removed
WithoutSeparators(s) == SelectSeq(s, LAMBDA c : c \notin {" ", "-"})

\* the number of digits of s
NumDigits(s) == Cardinality({i \in DOMAIN s : s[i] \in Digit})

\* all digits of s are the same digit
SameDigits(s) ==
    \A i, j \in DOMAIN s : (s[i] \in Digit /\ s[j] \in Digit) => s[i] = s[j]

Keys == {"emails", "urls", "phones", "credit_cards"}

CategoryOf(key) ==
    CASE key = "emails" -> "email"
      [] key = "urls" -> "url"
      [] key = "phones" -> "phone"
      [] key = "credit_cards" -> "credit_card"

Accepts(key, s) ==
    CASE key = "emails" -> validate_email(s).val
      [] key = "urls" -> validate_url(s).val
      [] key = "phones" -> validate_phone(s).val
      [] key = "credit_cards" -> validate_credit_card(s).val

(* C1: in the result of extract_all, the value of every valid credit-card   *)
(* finding is as long as its raw_format without spaces and hyphens, ends    *)
(* with the same last 4 characters, and is '*' everywhere else.             *)
C1_MaskedValue ==
    Returned("extract_all") =>
        \A k \in DOMAIN ret.val.credit_cards :
            LET f == ret.val.credit_cards[k]
                clean == WithoutSeparators(f.raw_format)
                n == Len(clean)
            IN  f.status = "valid" =>
                    /\ Len(f.value) = n
                    /\ n >= 4
                    /\ \A i \in (n - 3)..n : f.value[i] = clean[i]
                    /\ \A i \in 1..(n - 4) : f.value[i] = "*"

\* the sample card 4532 1234 5678 9010 has been reported as ************9010
C1_Witness ==
    /\ Returned("extract_all")
    /\ text = <<"4", "5", "3", "2", " ", "1", "2", "3", "4", " ", "5", "6", "7", "8", " ", "9", "0", "1", "0">>
    /\ ret.val.credit_cards =
           << [type |-> "credit_card", value |-> Rep("*", 12) \o <<"9", "0", "1", "0">>,
               status |-> "valid", raw_format |-> text] >>

(* C2: each list of extract_all holds one finding per match of its          *)
(* category's pattern, in match order; the status is 'valid' iff the        *)
(* category's validator accepts the match; the value is the match unless    *)
(* the finding is a valid credit card; raw_format is present exactly on     *)
(* the valid credit-card findings and is the match unchanged.               *)
C2_OneFindingPerMatch ==
    Returned("extract_all") =>
        \A key \in Keys :
            LET found == FindAll(CategoryOf(key), text)
                list == ret.val[key]
            IN  /\ Len(list) = Len(found)
                /\ \A k \in 1..Len(found) :
                       LET validCard == key = "credit_cards" /\ list[k].status = "valid"
                       IN  /\ list[k].type = CategoryOf(key)
                           /\ list[k].status \in {"valid", "invalid"}
                           /\ (list[k].status = "valid") = Accepts(key, found[k])
                           /\ ~validCard => list[k].value = found[k]
                           /\ ("raw_format" \in DOMAIN list[k]) = validCard
                           /\ validCard => list[k].raw_format = found[k]

\* a text with findings of two categories, valid and invalid, has been
\* extracted
C2_Witness ==
    /\ Returned("extract_all")
    /\ \E k \in DOMAIN ret.val.credit_cards : ret.val.credit_cards[k].status = "valid"
    /\ \E k \in DOMAIN ret.val.phones : ret.val.phones[k].status = "invalid"

\* the whitespace-separated words of a line
WordsOf(t) == Range(Split(t, " "))

\* the words of t that are URLs of a blocked scheme
BlockedUrlsIn(t) ==
    {w \in WordsOf(t) : \E p \in blocked_schemes : StartsWith(Lower(w), p)}

ExampleUrl == <<"h", "t", "t", "p", "s", ":", "/", "/", "e", "x", "a", "m", "p", "l", "e", ".", "c", "o", "m", "/", "p", "a", "t", "h", "?", "x", "=", "1">>

\* the list holds a finding of the given value and status
Reports(list, value, status) ==
    \E k \in DOMAIN list : list[k].value = value /\ list[k].status = status

(* C3: every URL of a blocked scheme in the text is reported by extract_all *)
(* as an 'invalid' url finding, and https://example.com/path?x=1 is         *)
(* reported as a 'valid' one.                                               *)
C3_BlockedUrlsReported ==
    Returned("extract_all") =>
        /\ \A u \in BlockedUrlsIn(text) : Reports(ret.val.urls, u, "invalid")
        /\ ExampleUrl \in WordsOf(text) => Reports(ret.val.urls, ExampleUrl, "valid")

\* the number of '@' in e
AtCount(e) == Cardinality({i \in DOMAIN e : e[i] = "@"})

\* the position of the '@' of a string that has exactly one
AtPos(e) == CHOOSE i \in DOMAIN e : e[i] = "@"

\* the rejection rules of an email, as the claim lists them
EmailRejected(e) ==
    \/ \E i \in 1..(Len(e) - 1) : e[i] = "." /\ e[i + 1] = "."
    \/ Len(e) > 0 /\ (e[1] = "." \/ e[Len(e)] = ".")
    \/ AtCount(e) # 1
    \/ AtCount(e) = 1 /\ AtPos(e) - 1 > 64
    \/ AtCount(e) = 1 /\ Len(e) - AtPos(e) > 255
    \/ \E k \in DOMAIN bad_stuff : Contains(Lower(e), bad_stuff[k])

(* C4: validate_email(e) is False iff e contains '..', starts or ends with  *)
(* '.', does not contain exactly one '@', has more than 64 characters       *)
(* before the '@' or more than 255 after it, or contains in lowercase one   *)
(* of union, select, drop, --, /*, */; a..b@example.com is rejected and     *)
(* user+tag@example.com accepted.                                           *)
C4_EmailRules ==
    Returned("validate_email") =>
        /\ ret.val = ~EmailRejected(text)
        /\ text = <<"a", ".", ".", "b", "@", "e", "x", "a", "m", "p", "l", "e", ".", "c", "o", "m">> => ret.val = FALSE
        /\ text = <<"u", "s", "e", "r", "+", "t", "a", "g", "@", "e", "x", "a", "m", "p", "l", "e", ".", "c", "o", "m">> => ret.val = TRUE

\* an email rejected only for its 65-character local part
C4_Witness ==
    /\ Returned("validate_email")
    /\ ret.val = FALSE
    /\ AtCount(text) = 1
    /\ AtPos(text) - 1 = 65
    /\ Len(text) - AtPos(text) = 255
    /\ ~Contains(text, <<".", ".">>)
    /\ ~Contains(text, <<"-", "-">>)
    /\ text[Len(text)] # "."

(* C5: validate_phone(p) is True iff p has between 10 and 15 digits and     *)
(* they are not all identical; extract_phone_numbers reports 111-111-1111   *)
(* 'invalid', (555) 123-4567 'valid', and every candidate of more than 15   *)
(* digits 'invalid'.                                                        *)
C5_PhoneRules ==
    /\ Returned("validate_phone") =>
           ret.val = (NumDigits(text) >= 10 /\ NumDigits(text) <= 15 /\ ~SameDigits(text))
    /\ Returned("extract_phone_numbers") =>
           /\ \A k \in DOMAIN ret.val :
                  NumDigits(ret.val[k].value) > 15 => ret.val[k].status = "invalid"
           /\ text = <<"1", "1", "1", "-", "1", "1", "1", "-", "1", "1", "1", "1">> =>
                  ret.val = << [type |-> "phone", value |-> text, status |-> "invalid"] >>
           /\ text = <<"(", "5", "5", "5", ")", " ", "1", "2", "3", "-", "4", "5", "6", "7">> =>
                  ret.val = << [type |-> "phone", value |-> text, status |-> "valid"] >>

\* a candidate with an international prefix and an extension, of more than
\* 15 digits, has been reported
C5_Witness ==
    /\ Returned("extract_phone_numbers")
    /\ \E k \in DOMAIN ret.val :
           /\ NumDigits(ret.val[k].value) > 15
           /\ ret.val[k].value[1] = "+"
           /\ Contains(ret.val[k].value, <<"e", "x", "t">>)
           /\ ret.val[k].status = "invalid"

\* the matches of the credit-card pattern in the text, as (start, end) spans
CardSpans == Spans("credit_card", text, 1)

(* C6: every credit-card candidate holds 13 to 19 digits, each followed by  *)
(* at most one space or hyphen, and the characters of the text just before  *)
(* and just after it are not digits.                                        *)
C6_CompleteDigitRun ==
    Returned("extract_credit_cards") =>
        /\ Len(ret.val) = Len(CardSpans)
        /\ \A k \in DOMAIN CardSpans :
               LET a == CardSpans[k][1]
                   b == CardSpans[k][2]
                   m == Slice(text, a, b)
               IN  /\ NumDigits(m) >= 13 /\ NumDigits(m) <= 19
                   /\ \A i \in DOMAIN m : m[i] \in Digit \cup CardSep
                   /\ \A i \in 1..(Len(m) - 1) : m[i] \in CardSep => m[i + 1] \in Digit
                   /\ At(text, a - 1) \notin Digit
                   /\ At(text, b) \notin Digit

\* two spans share a character position
Overlap(x, y) == x[1] < y[2] /\ y[1] < x[2]

(* C7: no character position of the text lies inside matches of two         *)
(* different categories among the findings of extract_all.                  *)
C7_DisjointCategories ==
    Returned("extract_all") =>
        \A c1, c2 \in Keys :
            c1 # c2 =>
                LET s1 == Spans(CategoryOf(c1), text, 1)
                    s2 == Spans(CategoryOf(c2), text, 1)
                IN  /\ Len(ret.val[c1]) = Len(s1)
                    /\ \A i \in DOMAIN s1 : \A j \in DOMAIN s2 : ~Overlap(s1[i], s2[j])

Validators ==
    {"validate_email", "validate_url", "validate_phone", "validate_credit_card"}

\* the valid credit-card findings of a list were masked from 13 to 19 digits
MaskedInContract(list) ==
    \A k \in DOMAIN list :
        list[k].status = "valid" =>
            LET clean == WithoutSeparators(list[k].raw_format)
            IN  /\ \A i \in DOMAIN clean : clean[i] \in Digit
                /\ Len(clean) >= 13 /\ Len(clean) <= 19

(* C9: no call raises; a validator returns a boolean, extract_all a mapping *)
(* of the four lists; and a credit card is masked only from a cleaned       *)
(* string of 13 to 19 digits.                                               *)
C9_Total ==
    pc = "done" =>
        /\ ret.exc = "none"
        /\ op \in Validators => ret.val \in BOOLEAN
        /\ op = "extract_all" =>
               /\ DOMAIN ret.val = Keys
               /\ MaskedInContract(ret.val.credit_cards)
        /\ op = "extract_credit_cards" => MaskedInContract(ret.val)

\* validate_email has returned False for a string without exactly one '@'
\* that passes the dot rules: the split could not be unpacked
C9_Witness ==
    /\ Returned("validate_email")
    /\ AtCount(text) = 2
    /\ ~Contains(text, <<".", ".">>)
    /\ Len(text) > 0 /\ text[1] # "." /\ text[Len(text)] # "."
    /\ ret.val = FALSE

(* C10: a finding of extract_credit_cards is 'invalid' iff all digits of    *)
(* its match are the same digit; every candidate holds only 13 to 19        *)
(* digits plus spaces and hyphens.                                          *)
C10_OnlyRepeatedDigitsRejected ==
    Returned("extract_credit_cards") =>
        LET found == FindAll("credit_card", text)
        IN  /\ Len(ret.val) = Len(found)
            /\ \A k \in DOMAIN found :
                   /\ (ret.val[k].status = "invalid") = SameDigits(found[k])
                   /\ \A i \in DOMAIN found[k] : found[k][i] \in Digit \cup CardSep
                   /\ NumDigits(found[k]) >= 13 /\ NumDigits(found[k]) <= 19

\* 9999-9999-9999-9999 has been reported invalid, unmasked
C10_Witness ==
    /\ Returned("extract_credit_cards")
    /\ text = <<"9", "9", "9", "9", "-", "9", "9", "9", "9", "-", "9", "9", "9", "9", "-", "9", "9", "9", "9">>
    /\ ret.val = << [type |-> "credit_card", value |-> text, status |-> "invalid"] >>

\* the text before and after the boundary behind its k-th character
Before(t, k) == Slice(t, 1, k + 1)

After(t, k) == Slice(t, k + 1, Len(t) + 1)

\* no match of any pattern in t has characters on both sides of the boundary
NoMatchSpans(t, k) ==
    \A key \in Keys :
        LET sp == Spans(CategoryOf(key), t, 1)
        IN  \A i \in DOMAIN sp : ~(sp[i][1] <= k /\ k + 1 < sp[i][2])

\* the list of t is the list of the text before the boundary followed by the
\* list of the text after it
ListsConcatenate(key, list, t, k) ==
    list = extract_all(Before(t, k)).val[key] \o extract_all(After(t, k)).val[key]

(* C8: for a text cut at a boundary that no match spans, each list of       *)
(* extract_all of the text is the list of the part before the boundary      *)
(* followed by the list of the part after it.                               *)
C8_Concatenation ==
    Returned("extract_all") =>
        \A k \in 0..Len(text) :
            NoMatchSpans(text, k) =>
                \A key \in Keys : ListsConcatenate(key, ret.val[key], text, k)

(* C8 as amended: the same for the emails, urls and phones lists, and for   *)
(* the credit_cards list when a part is empty or the part after the         *)
(* boundary does not start with a word character.                           *)
C8_ConcatenationAmended ==
    Returned("extract_all") =>
        \A k \in 0..Len(text) :
            NoMatchSpans(text, k) =>
                \A key \in Keys :
                    (\/ key # "credit_cards"
                     \/ k = 0
                     \/ k = Len(text)
                     \/ text[k + 1] \notin Word)
                        => ListsConcatenate(key, ret.val[key], text, k)

\* a text with an email before a boundary that no match spans and a credit
\* card after it
C8_Witness ==
    /\ Returned("extract_all")
    /\ \E k \in 1..(Len(text) - 1) :
           /\ NoMatchSpans(text, k)
           /\ extract_all(Before(text, k)).val.emails # <<>>
           /\ extract_all(After(text, k)).val.credit_cards # <<>>
           /\ Len(ret.val.emails) = 1
           /\ Len(ret.val.credit_cards) = 1

====
